---- MODULE Spec2Model ----
(***************************************************************************)
(* TerziAI: the session controller (hook useWebLLM) and the persistent     *)
(* message store (utils/storage.ts, the queued version, lines 151-399).    *)
(*                                                                         *)
(* JavaScript runs every synchronous segment, together with the microtask  *)
(* continuations it schedules, to completion before another event handler, *)
(* timer or backend callback runs.  One action of this model is one such   *)
(* run-to-completion segment.                                              *)
(***************************************************************************)
EXTENDS Integers, Sequences, FiniteSets, TLC

\* ------------------------------------------------------------------ bounds
MaxOps == 5          \* store calls made in one behaviour
MaxStoreCalls == 3   \* store calls made by the clients of the store on its own
MaxPageInits == 1    \* initializeEngine calls on the page with its store
MaxPageSends == 1    \* sendMessage calls on the page with its store
MaxInits == 2        \* initializeEngine calls that get past the guards
MaxSends == 2        \* sendMessage calls that are accepted
MaxDemoSends == 6    \* sendMessage calls that are accepted, demo mode on its own
RespLen == 1         \* characters of a scripted demo response
MaxChunks == 1       \* deltas a completion stream delivers at most
MaxPendingResets == 2  \* reset calls while one disposal is pending, engine on its own
MaxResets == 1       \* reset calls awaiting an engine's unload/dispose at once
NumModels == 2       \* model ids the selector offers
MaxPrior == 60       \* messages of the longest conversation a window is built from

\* MAX_CONVERSATION_MESSAGES (part_000:38)
MAX_CONVERSATION_MESSAGES == 50

\* ------------------------------------------------------------- store state
VARIABLES
  indexedDBAvailable,   \* typeof indexedDB !== 'undefined'
  operationInProgress,  \* storage.ts:164
  operationQueue,       \* storage.ts:165, the waiters' resolvers in push order
  opKind,               \* per call: "none" | "save" | "load" | "clear"
  opPayload,            \* per call: the messages argument (ids in list order)
  callState,            \* per call: position inside withDatabaseOperation
  callResult,           \* per call: how the caller's promise settled
  opState,              \* per call: position of the operation() closure
  opOutcome,            \* per call: how the operation() closure ended
  opReturn,             \* per loadMessages call: the list its operation() returned
  waited,               \* the calls that had to queue behind another one
  openq,                \* backend: open requests not yet answered, in order
  txq,                  \* backend: live transactions in creation order
  txReqs,               \* backend: per transaction, requests not yet processed
  txUndo,               \* backend: per transaction, content to restore on abort
  db                    \* backend: keys of the records in the 'messages' store

storeVars == <<indexedDBAvailable, operationInProgress, operationQueue, opKind,
               opPayload, callState, callResult, opState, opOutcome, opReturn,
               waited, openq, txq, txReqs, txUndo, db>>

\* -------------------------------------------------------- controller state
VARIABLES
  status,               \* useState<LLMStatus>         (part_000:64)
  mode,                 \* useState<EngineMode | null> (part_000:65)
  gpuInfo,              \* useState<string | null>, by the source of the text (part_000:71)
  progress,             \* loadingProgress.progress    (part_000:66)
  error,                \* useState<string | null>, by the kind of text (part_000:70)
  suggestedModelId,     \* 0 for null (part_000:72)
  cachedModelId,        \* 0 for null (part_000:73)
  messages,             \* the conversation (part_000:63)
  engineRef,            \* 0 for null, else the handle (part_000:75)
  abortControllerRef,   \* 0 for null, else the controller (part_000:76)
  initializingRef,      \* part_000:77
  demoResponseIndex,    \* part_000:78
  modelId,              \* fullConfig.modelId, the selected model (part_000:56)
  testEnv,              \* isTestEnvironment()
  query,                \* a call of a pure helper on its own: operation, arguments, result
  cStatus,              \* status as captured by the callbacks of the last render
  cCachedModelId,       \* cachedModelId as captured by the last render
  handleState,          \* per engine handle: "none" | "live" | "disposed"
  handleModel,          \* per engine handle: the model it was constructed for
  handleCap,            \* per engine handle: the cleanup method it offers
  aborted,              \* the AbortControllers whose signal is aborted
  initPc,               \* per accepted initializeEngine call: what it awaits
  initModel,            \* per accepted initializeEngine call: its fullConfig.modelId
  genPc,                \* per accepted sendMessage call: what it awaits
  genI,                 \* per demo sendMessage call: the loop variable i
  genResponse,          \* per demo sendMessage call: the index of its response in DEMO_RESPONSES, -1 for none
  unloading,            \* per engine handle: reset calls awaiting its unload/dispose
  lastCall,             \* the last call made on the hook and what became of it
  mounted,              \* the load effect: "no" | "loading" | "loaded" (part_000:81-94)
  saveEffectPending     \* messages were set and the save effect has not run (part_000:97-101)

hookVars == <<status, mode, progress, error, suggestedModelId, cachedModelId, messages,
              engineRef, abortControllerRef, initializingRef, demoResponseIndex,
              modelId, testEnv, query, genResponse, gpuInfo, cStatus, cCachedModelId, handleState, handleModel,
              handleCap, aborted, initPc, initModel, genPc, genI, unloading, lastCall,
              mounted, saveEffectPending>>

vars == <<hookVars, storeVars>>

Inits == 1..MaxInits
Sends == 1..MaxSends
AllSends == 1..MaxDemoSends
Handles == 1..MaxInits
Models == 1..NumModels

Ops == 1..MaxOps

\* The calls made by the clients of the store on its own.
StoreCalls == 1..MaxStoreCalls

\* The messages the store's clients hand over, by number in order of creation.
\* Their ids come from crypto.randomUUID() (part_000:345), so the order of the
\* ids is unrelated to the order of creation.
MessageIds == <<20, 10, 30, 40>>

\* message.timestamp, new Date() at creation, in milliseconds.
MessageTimes == <<1500, 3000, 4500, 6000>>

Message(n) ==
  [id |-> MessageIds[n],
   role |-> IF n % 2 = 1 THEN "user" ELSE "assistant",
   content |-> n,
   timestamp |-> MessageTimes[n]]

\* Date.prototype.toISOString(): the date and time to the second, and the
\* milliseconds.
toISOStringSeconds(t) == [sec |-> t \div 1000, ms |-> 0]
toISOString(t) == [sec |-> t \div 1000, ms |-> t % 1000]

\* new Date(isoString)
Date(iso) == iso.sec * 1000 + iso.ms

\* { ...message, timestamp: message.timestamp.toISOString() }
Storable(m) == [m EXCEPT !.timestamp = toISOString(m.timestamp)]

\* { ...msg, timestamp: new Date(msg.timestamp) }
FromStorable(r) == [r EXCEPT !.timestamp = Date(r.timestamp)]

\* The conversations handed to saveMessages: empty, a two-message one and a
\* one-message one with a different id.
Payloads == {<< >>, <<Message(1), Message(2)>>, <<Message(3)>>}

\* History that may be in the store before the page is opened.
PriorHistory == {Storable(Message(4))}

Range(s) == {s[i] : i \in 1..Len(s)}

\* The records saveMessages writes for a payload.
Records(payload) == {Storable(payload[k]) : k \in 1..Len(payload)}

\* The calls that have arrived; call ids are handed out in arrival order.
Arrived == {o \in Ops : opKind[o] # "none"}

NextOp == Cardinality(Arrived) + 1

\* ------------------------------------------------------ controller: helpers

\* The callbacks in use were made by a render that has not seen the latest
\* state: React has queued the update and not yet rendered again.
Stale == cStatus # status \/ cCachedModelId # cachedModelId

Call(op, outcome) == lastCall' = [op |-> op, outcome |-> outcome]

NextInitId == Cardinality({i \in Inits : initPc[i] # "none"}) + 1
NextSendId == Cardinality({g \in AllSends : genPc[g] # "none"}) + 1
NextHandle == Cardinality({h \in Handles : handleState[h] # "none"}) + 1

\* abortControllerRef.current?.signal.aborted, read through the ref as it is now.
AbortSignalled == abortControllerRef # 0 /\ abortControllerRef \in aborted

\* abortControllerRef.current?.abort()
AfterAbort == IF abortControllerRef # 0 THEN aborted \cup {abortControllerRef} ELSE aborted

\* DEMO_RESPONSES (part_000:25-31): the five scripted responses, by number.
DEMO_RESPONSES_ButLast == <<1, 2, 3, 4>>
DEMO_RESPONSES == <<1, 2, 3, 4, 5>>

\* A ChatMessage of the conversation; content is the number of characters.
UserMessage(g) ==
  [id |-> 2 * g - 1, role |-> "user", content |-> 1, timestamp |-> 10000 * g]
AssistantMessage(g) ==
  [id |-> 2 * g, role |-> "assistant", content |-> 0, timestamp |-> 10000 * g]

\* prev.map(m => m.id === assistantMessage.id ? {...m, content} : m)
SetContent(msgs, id, n) ==
  [k \in 1..Len(msgs) |-> IF msgs[k].id = id THEN [msgs[k] EXCEPT !.content = n] ELSE msgs[k]]

\* getNextSmallerModel, over model ids ordered by size; 0 for null.
NextSmaller(m) == IF m > 1 THEN m - 1 ELSE 0

\* ------------------------------------------------------------ model catalog

\* AVAILABLE_MODELS (models.ts:41-179), in the order of the source; vramMB in
\* hundredths of a megabyte.
AVAILABLE_MODELS ==
  << [id |-> "Llama-3.2-1B-Instruct-q4f32_1-MLC", shaderType |-> "f32", vramMB |-> 113000],
     [id |-> "Llama-3.2-3B-Instruct-q4f32_1-MLC", shaderType |-> "f32", vramMB |-> 295000],
     [id |-> "Phi-3.5-mini-instruct-q4f32_1-MLC", shaderType |-> "f32", vramMB |-> 320000],
     [id |-> "Llama-3.1-8B-Instruct-q4f32_1-MLC-1k", shaderType |-> "f32", vramMB |-> 530000],
     [id |-> "Llama-3.1-8B-Instruct-q4f32_1-MLC", shaderType |-> "f32", vramMB |-> 610000],
     [id |-> "SmolLM2-360M-Instruct-q4f16_1-MLC", shaderType |-> "f16", vramMB |-> 37606],
     [id |-> "TinyLlama-1.1B-Chat-v1.0-q4f16_1-MLC-1k", shaderType |-> "f16", vramMB |-> 67524],
     [id |-> "Llama-3.2-1B-Instruct-q4f16_1-MLC", shaderType |-> "f16", vramMB |-> 87904],
     [id |-> "Qwen2.5-1.5B-Instruct-q4f16_1-MLC", shaderType |-> "f16", vramMB |-> 162975],
     [id |-> "Llama-3.2-3B-Instruct-q4f16_1-MLC", shaderType |-> "f16", vramMB |-> 226369],
     [id |-> "Qwen2.5-3B-Instruct-q4f16_1-MLC", shaderType |-> "f16", vramMB |-> 250476],
     [id |-> "Phi-3.5-mini-instruct-q4f16_1-MLC-1k", shaderType |-> "f16", vramMB |-> 252007],
     [id |-> "Llama-3.1-8B-Instruct-q4f16_1-MLC-1k", shaderType |-> "f16", vramMB |-> 459834],
     [id |-> "Llama-3.1-8B-Instruct-q4f16_1-MLC", shaderType |-> "f16", vramMB |-> 500100],
     [id |-> "Qwen2.5-7B-Instruct-q4f16_1-MLC", shaderType |-> "f16", vramMB |-> 510667] >>

\* null, where a ModelInfo is expected.
NullModel == [id |-> "null", shaderType |-> "none", vramMB |-> 0]

\* Array.prototype.findIndex on the id: the first index from 0, -1 for none.
findIndexOneBased(list, id) ==
  IF \E k \in 1..Len(list) : list[k].id = id
  THEN CHOOSE k \in 1..Len(list) :
         list[k].id = id /\ \A j \in 1..(k - 1) : list[j].id # id
  ELSE -1
findIndex(list, id) ==
  IF \E k \in 1..Len(list) : list[k].id = id
  THEN (CHOOSE k \in 1..Len(list) :
          list[k].id = id /\ \A j \in 1..(k - 1) : list[j].id # id) - 1
  ELSE -1

\* list.slice(0, n)
slice(list, n) == SubSeq(list, 1, IF n < Len(list) THEN n ELSE Len(list))

\* getAvailableModels (models.ts:187-201)
getAvailableModels(supportsShaderF16, limitForMobile) ==
  LET models == IF supportsShaderF16
                THEN AVAILABLE_MODELS
                ELSE SelectSeq(AVAILABLE_MODELS, LAMBDA m : m.shaderType = "f32")
  IN IF limitForMobile THEN slice(models, 3) ELSE models

\* getModelById (models.ts:206-208); NullModel for undefined.
getModelById(id) ==
  IF findIndex(AVAILABLE_MODELS, id) >= 0
  THEN AVAILABLE_MODELS[findIndex(AVAILABLE_MODELS, id) + 1]
  ELSE NullModel

\* getNextSmallerModel (models.ts:289-304)
getNextSmallerModel(currentModelId, supportsShaderF16, limitForMobile) ==
  LET availableModels == getAvailableModels(supportsShaderF16, limitForMobile)
      currentIndex == findIndex(availableModels, currentModelId)
  IN IF currentIndex <= 0 THEN NullModel ELSE availableModels[(currentIndex - 1) + 1]

\* getSmallestModel (models.ts:311-317)
getSmallestModel(supportsShaderF16, limitForMobile) ==
  getAvailableModels(supportsShaderF16, limitForMobile)[1]

\* ------------------------------------------------- conversation window

\* A conversation of n messages, user and assistant in turn; the content of a
\* message is its number.
History(n) ==
  [k \in 1..n |-> [id |-> k, role |-> IF k % 2 = 1 THEN "user" ELSE "assistant",
                   content |-> k, timestamp |-> 10000 * k]]

\* list.slice(-n)
sliceFirst(list, n) ==
  IF Len(list) > n THEN SubSeq(list, 1, n) ELSE list
sliceLast(list, n) ==
  IF Len(list) > n THEN SubSeq(list, Len(list) - n + 1, Len(list)) ELSE list

\* The system prompt's entry; its content is 0.
SystemEntry == [role |-> "system", content |-> 0]

\* conversationHistory of sendMessage (part_000:393-403), from the messages the
\* callback captured and the content sent.
conversationHistory(msgs, content) ==
  LET recentMessages == IF Len(msgs) > MAX_CONVERSATION_MESSAGES
                        THEN sliceLast(msgs, MAX_CONVERSATION_MESSAGES)
                        ELSE msgs
  IN <<SystemEntry>>
       \o [k \in 1..Len(recentMessages) |->
             [role |-> recentMessages[k].role, content |-> recentMessages[k].content]]
       \o <<[role |-> "user", content |-> content]>>

\* No helper has been called on its own.
NoQuery == [op |-> "none", arg |-> "none", result |-> "none"]

\* The ids a caller may pass: those of the catalog and one that is not in it.
ModelIds == {AVAILABLE_MODELS[k].id : k \in 1..Len(AVAILABLE_MODELS)} \cup {"unknown-model"}

CatalogArgs ==
  [id : ModelIds, supportsShaderF16 : BOOLEAN, limitForMobile : BOOLEAN]

\* A client calls one of the catalog's queries with the arguments it holds.
CatalogCall(op, result) ==
  /\ query.op = "none"
  /\ query' = [query EXCEPT !.op = op, !.result = result]
  /\ UNCHANGED <<status, mode, progress, error, suggestedModelId, cachedModelId, messages,
                 engineRef, abortControllerRef, initializingRef, demoResponseIndex,
                 modelId, testEnv, genResponse, gpuInfo, cStatus, cCachedModelId, handleState, handleModel,
                 handleCap, aborted, initPc, initModel, genPc, genI, unloading, lastCall,
                 mounted, saveEffectPending>>

CallGetAvailableModels ==
  CatalogCall("getAvailableModels",
              getAvailableModels(query.arg.supportsShaderF16, query.arg.limitForMobile))

CallGetNextSmallerModel ==
  CatalogCall("getNextSmallerModel",
              getNextSmallerModel(query.arg.id, query.arg.supportsShaderF16,
                                  query.arg.limitForMobile))

CallGetSmallestModel ==
  CatalogCall("getSmallestModel",
              getSmallestModel(query.arg.supportsShaderF16, query.arg.limitForMobile))

\* sendMessage builds the window for the engine.
WindowArgs == [messages : {History(n) : n \in 0..MaxPrior}, content : {MaxPrior + 1}]

CallConversationHistory ==
  CatalogCall("conversationHistory",
              conversationHistory(query.arg.messages, query.arg.content))

\* The signals the catch block of initializeEngine looks for in the error text.
ErrorTexts == SUBSET {"cache", "gpu", "memory"}

\* What an engine offers for cleanup (part_000:115-119).  An engine that has
\* only dispose is awaited the same way as one that has unload.
Caps == {"unload", "none"}

\* ------------------------------------------------- controller: initializeEngine

\* if (initializingRef.current) return          (part_000:135)
InitializationNeverInProgress == FALSE
InitializationInProgress == initializingRef

\* if (engineRef.current || status === 'loading' || status === 'demo') return
AlreadyInitialized == engineRef # 0 \/ cStatus \in {"loading", "demo"}

initializeEngine ==
  \/ /\ InitializationInProgress \/ AlreadyInitialized
     /\ Call("initializeEngine", "ignored")
     /\ UNCHANGED <<status, mode, progress, error, suggestedModelId, cachedModelId,
                    messages, saveEffectPending, engineRef, abortControllerRef, initializingRef,
                    demoResponseIndex, modelId, testEnv, query, genResponse, gpuInfo, mounted, cStatus, cCachedModelId,
                    handleState, handleModel, handleCap, aborted, initPc, initModel,
                    genPc, genI, unloading>>
  \/ /\ ~InitializationInProgress /\ ~AlreadyInitialized
     /\ Call("initializeEngine", "accepted")
     /\ error' = "none"
     /\ IF testEnv
        THEN /\ mode' = "demo"
             /\ status' = "demo"
             /\ gpuInfo' = "test"
             /\ progress' = 100
             /\ cachedModelId' = modelId
             /\ initializingRef' = FALSE
             /\ UNCHANGED <<initPc, initModel>>
        ELSE /\ NextInitId \in Inits
             /\ initializingRef' = TRUE
             \* a cached model other than the selected one: disposeEngine() finds
             \* engineRef.current null here, so only the cached id is cleared
             /\ cachedModelId' = IF cCachedModelId # 0 /\ cCachedModelId # modelId
                                 THEN 0 ELSE cachedModelId
             /\ status' = "loading"
             /\ progress' = 5
             /\ initPc' = [initPc EXCEPT ![NextInitId] = "gpuCheck"]
             /\ initModel' = [initModel EXCEPT ![NextInitId] = modelId]
             /\ UNCHANGED <<mode, gpuInfo>>
     /\ UNCHANGED <<suggestedModelId, messages, saveEffectPending, engineRef, abortControllerRef,
                    demoResponseIndex, modelId, testEnv, query, genResponse, mounted, cStatus, cCachedModelId,
                    handleState, handleModel, handleCap, aborted, genPc, genI,
                    unloading>>

InitDone(i) ==
  /\ initPc' = [initPc EXCEPT ![i] = "done"]
  /\ initModel' = [initModel EXCEPT ![i] = 0]

\* await checkGPUSupport() resolves.
GpuCheckResolved(i, hasGPU) ==
  /\ initPc[i] = "gpuCheck"
  /\ IF hasGPU
     THEN /\ mode' = "gpu"
          /\ gpuInfo' = "vendor"
          /\ progress' = 10
          /\ initPc' = [initPc EXCEPT ![i] = "import"]
          /\ UNCHANGED <<status, cachedModelId, initializingRef, initModel>>
     ELSE /\ mode' = "demo"
          /\ status' = "demo"
          /\ gpuInfo' = "probe"
          /\ progress' = 100
          /\ cachedModelId' = initModel[i]
          /\ initializingRef' = FALSE
          /\ InitDone(i)
  /\ UNCHANGED <<error, suggestedModelId, messages, saveEffectPending, engineRef, abortControllerRef,
                 demoResponseIndex, modelId, testEnv, query, genResponse, mounted, cStatus, cCachedModelId,
                 handleState, handleModel, handleCap, aborted, genPc, genI, unloading,
                 lastCall>>

\* await import('@mlc-ai/web-llm') resolves: CreateMLCEngine is invoked.
ImportResolved(i) ==
  /\ initPc[i] = "import"
  /\ initPc' = [initPc EXCEPT ![i] = "create"]
  /\ UNCHANGED <<status, mode, progress, error, suggestedModelId, cachedModelId,
                 messages, saveEffectPending, engineRef, abortControllerRef, initializingRef,
                 demoResponseIndex, modelId, testEnv, query, genResponse, gpuInfo, mounted, cStatus, cCachedModelId,
                 handleState, handleModel, handleCap, aborted, initModel, genPc, genI,
                 unloading, lastCall>>

\* await CreateMLCEngine(...) resolves with a new engine.
CreateResolved(i, cap) ==
  /\ initPc[i] = "create"
  /\ handleState' = [handleState EXCEPT ![NextHandle] = "live"]
  /\ handleModel' = [handleModel EXCEPT ![NextHandle] = initModel[i]]
  /\ handleCap' = [handleCap EXCEPT ![NextHandle] = cap]
  /\ engineRef' = NextHandle
  /\ status' = "ready"
  /\ progress' = 100
  /\ suggestedModelId' = 0
  /\ cachedModelId' = initModel[i]
  /\ initializingRef' = FALSE
  /\ InitDone(i)
  /\ UNCHANGED <<mode, error, messages, saveEffectPending, abortControllerRef, demoResponseIndex, modelId,
                 testEnv, query, genResponse, gpuInfo, mounted, cStatus, cCachedModelId, aborted, genPc, genI, unloading,
                 lastCall>>

\* isCacheError (part_000:241-246): 'cache', 'network error', 'networkerror'
\* or 'failed to fetch' in the lower-cased text.
isCacheErrorNever(text) == FALSE
isCacheError(text) == "cache" \in text

\* The condition of part_000:270-274: 'GPU', 'WebGPU' or 'adapter' in the text.
isGPUErrorNever(text) == FALSE
isGPUError(text) == "gpu" \in text

\* isMemoryError (part_000:249-254): 'memory', 'OOM', 'Out of memory',
\* 'allocation' or 'buffer' in the text.
isMemoryErrorNever(text) == FALSE
isMemoryError(text) == "memory" \in text

\* The import or CreateMLCEngine rejects with a text holding the signals in
\* text: the catch block (part_000:236-322).
InitFailed(i, text) ==
  /\ initPc[i] \in {"import", "create"}
  /\ initializingRef' = FALSE
  /\ InitDone(i)
  /\ IF isCacheError(text)
     THEN /\ error' = "cache"
          /\ status' = "error"
          /\ UNCHANGED <<mode, gpuInfo, progress, suggestedModelId>>
     ELSE IF isGPUError(text)
     THEN /\ mode' = "demo"
          /\ status' = "demo"
          /\ gpuInfo' = "failure"
          /\ progress' = 100
          /\ UNCHANGED <<error, suggestedModelId>>
     ELSE IF isMemoryError(text)
     THEN IF NextSmaller(initModel[i]) # 0
          THEN /\ suggestedModelId' = NextSmaller(initModel[i])
               /\ error' = "memory"
               /\ status' = "error"
               /\ UNCHANGED <<mode, gpuInfo, progress>>
          ELSE /\ mode' = "demo"
               /\ status' = "demo"
               /\ gpuInfo' = "insufficient"
               /\ progress' = 100
               /\ UNCHANGED <<error, suggestedModelId>>
     ELSE /\ error' = "raw"
          /\ status' = "error"
          /\ UNCHANGED <<mode, gpuInfo, progress, suggestedModelId>>
  /\ UNCHANGED <<cachedModelId, messages, saveEffectPending, engineRef, abortControllerRef,
                 demoResponseIndex, modelId, testEnv, query, genResponse, mounted, cStatus, cCachedModelId,
                 handleState, handleModel, handleCap, aborted, genPc, genI, unloading,
                 lastCall>>

\* ----------------------------------------------------- controller: sendMessage

\* if (isGeneratingNow) return                  (part_000:335)
GenerationNeverInProgress == FALSE
GenerationInProgress == cStatus = "generating"

\* if (!isDemo && (!engineRef.current || !isReady)) throw
EngineNeverNotReady == FALSE
EngineNotReady == cStatus # "demo" /\ (engineRef = 0 \/ cStatus # "ready")

sendMessageWithin(maxSends) ==
  \/ /\ GenerationInProgress
     /\ Call("sendMessage", "ignored")
     /\ UNCHANGED <<status, mode, progress, error, suggestedModelId, cachedModelId,
                    messages, saveEffectPending, engineRef, abortControllerRef, initializingRef,
                    demoResponseIndex, modelId, testEnv, query, genResponse, gpuInfo, mounted, cStatus, cCachedModelId,
                    handleState, handleModel, handleCap, aborted, initPc, initModel,
                    genPc, genI, unloading>>
  \/ /\ ~GenerationInProgress /\ EngineNotReady
     /\ Call("sendMessage", "threw")
     /\ UNCHANGED <<status, mode, progress, error, suggestedModelId, cachedModelId,
                    messages, saveEffectPending, engineRef, abortControllerRef, initializingRef,
                    demoResponseIndex, modelId, testEnv, query, genResponse, gpuInfo, mounted, cStatus, cCachedModelId,
                    handleState, handleModel, handleCap, aborted, initPc, initModel,
                    genPc, genI, unloading>>
  \/ \* demo mode: the typing loop; its first pass checks the signal at once
     /\ ~GenerationInProgress /\ ~EngineNotReady /\ cStatus = "demo"
     /\ NextSendId <= maxSends
     /\ Call("sendMessage", "accepted")
     /\ messages' = messages \o <<UserMessage(NextSendId), AssistantMessage(NextSendId)>>
     /\ saveEffectPending' = TRUE
     /\ genResponse' = [genResponse EXCEPT ![NextSendId] = demoResponseIndex % Len(DEMO_RESPONSES)]
     /\ demoResponseIndex' = demoResponseIndex + 1
     /\ IF AbortSignalled
        THEN /\ status' = "demo"
             /\ genPc' = [genPc EXCEPT ![NextSendId] = "done"]
        ELSE /\ status' = "generating"
             /\ genPc' = [genPc EXCEPT ![NextSendId] = "typing"]
     /\ UNCHANGED <<mode, progress, error, suggestedModelId, cachedModelId, engineRef,
                    abortControllerRef, initializingRef, modelId, testEnv, query, gpuInfo, mounted, cStatus,
                    cCachedModelId, handleState, handleModel, handleCap, aborted,
                    initPc, initModel, genI, unloading>>
  \/ \* GPU mode: a new AbortController, then completions.create() is awaited
     /\ ~GenerationInProgress /\ ~EngineNotReady /\ cStatus # "demo"
     /\ NextSendId <= maxSends
     /\ Call("sendMessage", "accepted")
     /\ messages' = messages \o <<UserMessage(NextSendId), AssistantMessage(NextSendId)>>
     /\ saveEffectPending' = TRUE
     /\ status' = "generating"
     /\ error' = "none"
     /\ abortControllerRef' = NextSendId
     /\ genPc' = [genPc EXCEPT ![NextSendId] = "creating"]
     /\ UNCHANGED <<mode, progress, suggestedModelId, cachedModelId, engineRef,
                    initializingRef, demoResponseIndex, modelId, testEnv, query, genResponse, gpuInfo, mounted, cStatus,
                    cCachedModelId, handleState, handleModel, handleCap, aborted,
                    initPc, initModel, genI, unloading>>

sendMessage == sendMessageWithin(MaxSends)

\* The 15 ms timer of the typing loop fires: the next prefix is shown, then the
\* loop ends or checks the signal before it waits again.
DemoTick(g) ==
  /\ genPc[g] = "typing"
  /\ messages' = SetContent(messages, 2 * g, genI[g])
  /\ saveEffectPending' = TRUE
  /\ IF genI[g] + 1 > RespLen \/ AbortSignalled
     THEN /\ status' = "demo"
          /\ genPc' = [genPc EXCEPT ![g] = "done"]
          /\ genI' = [genI EXCEPT ![g] = 0]
     ELSE /\ genI' = [genI EXCEPT ![g] = genI[g] + 1]
          /\ UNCHANGED <<status, genPc>>
  /\ UNCHANGED <<mode, progress, error, suggestedModelId, cachedModelId, engineRef,
                 abortControllerRef, initializingRef, demoResponseIndex, modelId,
                 testEnv, query, genResponse, gpuInfo, mounted, cStatus, cCachedModelId, handleState, handleModel, handleCap,
                 aborted, initPc, initModel, unloading, lastCall>>

\* await engineRef.current.chat.completions.create(...) resolves.
CompletionCreated(g) ==
  /\ genPc[g] = "creating"
  /\ genPc' = [genPc EXCEPT ![g] = "streaming"]
  /\ UNCHANGED <<status, mode, progress, error, suggestedModelId, cachedModelId,
                 messages, saveEffectPending, engineRef, abortControllerRef, initializingRef,
                 demoResponseIndex, modelId, testEnv, query, genResponse, gpuInfo, mounted, cStatus, cCachedModelId,
                 handleState, handleModel, handleCap, aborted, initPc, initModel, genI,
                 unloading, lastCall>>

\* The stream delivers a chunk: the signal is checked, then the delta appended.
StreamChunk(g) ==
  /\ genPc[g] = "streaming"
  /\ IF AbortSignalled
     THEN /\ status' = "ready"
          /\ genPc' = [genPc EXCEPT ![g] = "done"]
          /\ UNCHANGED <<messages, saveEffectPending>>
     ELSE /\ \E k \in 1..Len(messages) :
               /\ messages[k].id = 2 * g
               /\ messages[k].content < MaxChunks
               /\ messages' = SetContent(messages, 2 * g, messages[k].content + 1)
               /\ saveEffectPending' = TRUE
          /\ UNCHANGED <<status, genPc>>
  /\ UNCHANGED <<mode, progress, error, suggestedModelId, cachedModelId, engineRef,
                 abortControllerRef, initializingRef, demoResponseIndex, modelId,
                 testEnv, query, genResponse, gpuInfo, mounted, cStatus, cCachedModelId, handleState, handleModel, handleCap,
                 aborted, initPc, initModel, genI, unloading, lastCall>>

\* The stream ends.
StreamEnd(g) ==
  /\ genPc[g] = "streaming"
  /\ status' = "ready"
  /\ genPc' = [genPc EXCEPT ![g] = "done"]
  /\ UNCHANGED <<mode, progress, error, suggestedModelId, cachedModelId, messages, saveEffectPending,
                 engineRef, abortControllerRef, initializingRef, demoResponseIndex,
                 modelId, testEnv, query, genResponse, gpuInfo, mounted, cStatus, cCachedModelId, handleState, handleModel,
                 handleCap, aborted, initPc, initModel, genI, unloading, lastCall>>

\* completions.create() or the stream throws: an AbortError only restores the
\* status, any other error is recorded as well.
GenerationFailed(g, abortError) ==
  /\ genPc[g] \in {"creating", "streaming"}
  /\ status' = "ready"
  /\ error' = IF abortError THEN error ELSE "generation"
  /\ genPc' = [genPc EXCEPT ![g] = "done"]
  /\ UNCHANGED <<mode, progress, suggestedModelId, cachedModelId, messages, saveEffectPending, engineRef,
                 abortControllerRef, initializingRef, demoResponseIndex, modelId,
                 testEnv, query, genResponse, gpuInfo, mounted, cStatus, cCachedModelId, handleState, handleModel, handleCap,
                 aborted, initPc, initModel, genI, unloading, lastCall>>

\* -------------------------------------------- controller: stopGeneration, reset

stopGeneration ==
  /\ Call("stopGeneration", "accepted")
  /\ aborted' = AfterAbort
  /\ status' = IF cStatus = "generating" THEN "ready"
               ELSE IF cStatus = "demo" /\ abortControllerRef # 0 THEN "demo"
               ELSE status
  /\ UNCHANGED <<mode, progress, error, suggestedModelId, cachedModelId, messages, saveEffectPending,
                 engineRef, abortControllerRef, initializingRef, demoResponseIndex,
                 modelId, testEnv, query, genResponse, gpuInfo, mounted, cStatus, cCachedModelId, handleState, handleModel,
                 handleCap, initPc, initModel, genPc, genI, unloading>>

\* The statements of reset after await disposeEngine() (part_000:484-490).
ResetState ==
  /\ status' = "idle"
  /\ mode' = "none"
  /\ gpuInfo' = "none"
  /\ progress' = 0
  /\ error' = "none"
  /\ suggestedModelId' = 0
  /\ cachedModelId' = 0

\* The engine behind handle h is gone: nothing of it is read again.
Released(h) ==
  /\ handleState' = [handleState EXCEPT ![h] = "disposed"]
  /\ handleModel' = [handleModel EXCEPT ![h] = 0]
  /\ handleCap' = [handleCap EXCEPT ![h] = "none"]

\* The cleanup of the engine behind handle h failed: disposeEngine drops the
\* handle all the same (part_000:122-126).
ReleaseFailed(h) ==
  /\ handleState' = [handleState EXCEPT ![h] = "disposeFailed"]
  /\ handleModel' = [handleModel EXCEPT ![h] = 0]
  /\ handleCap' = [handleCap EXCEPT ![h] = "none"]

\* reset, up to the await inside disposeEngine; an engine that has neither
\* unload nor dispose leaves nothing to await.  maxPending bounds the calls
\* made while the disposal of one handle is pending.
resetAndClear(maxPending) ==
  /\ Call("reset", "accepted")
  /\ aborted' = AfterAbort
  /\ initializingRef' = FALSE
  /\ engineRef = 0
  /\ ResetState
  /\ messages' = << >>
  /\ saveEffectPending' = TRUE
  /\ UNCHANGED <<engineRef, abortControllerRef, demoResponseIndex, modelId, testEnv, query, genResponse,
                 mounted, cStatus, cCachedModelId, handleState, handleModel, handleCap,
                 initPc, initModel, genPc, genI, unloading>>
resetWithin(maxPending) ==
  /\ Call("reset", "accepted")
  /\ aborted' = AfterAbort
  /\ initializingRef' = FALSE
  /\ IF engineRef # 0 /\ handleCap[engineRef] # "none"
     THEN /\ unloading[engineRef] < maxPending
          /\ unloading' = [unloading EXCEPT ![engineRef] = @ + 1]
          /\ UNCHANGED <<status, mode, gpuInfo, progress, error, suggestedModelId,
                         cachedModelId, engineRef, handleState, handleModel,
                         handleCap>>
     ELSE /\ engineRef' = 0
          /\ IF engineRef # 0
             THEN Released(engineRef)
             ELSE UNCHANGED <<handleState, handleModel, handleCap>>
          /\ ResetState
          /\ UNCHANGED unloading
  /\ UNCHANGED <<messages, saveEffectPending, abortControllerRef, demoResponseIndex, modelId, testEnv, query, genResponse, mounted,
                 cStatus, cCachedModelId, initPc, initModel, genPc, genI>>

reset == resetWithin(MaxResets)

\* engine.unload() / engine.dispose() of the engine held throws before it
\* returns a promise: the catch of disposeEngine clears engineRef.current and
\* reset goes on in the same run.
resetUnloadThrows ==
  /\ Call("reset", "accepted")
  /\ aborted' = AfterAbort
  /\ initializingRef' = FALSE
  /\ engineRef # 0
  /\ handleCap[engineRef] # "none"
  /\ engineRef' = 0
  /\ ReleaseFailed(engineRef)
  /\ ResetState
  /\ UNCHANGED <<messages, saveEffectPending, abortControllerRef, demoResponseIndex, modelId,
                 testEnv, query, genResponse, mounted, cStatus, cCachedModelId, initPc, initModel, genPc, genI,
                 unloading>>

\* engine.unload() / engine.dispose() of handle h settles, resolved or rejected
\* alike: disposeEngine clears engineRef.current, whatever it holds by now,
\* and reset goes on.
DisposeSettledPropagating(h, resolved) ==
  /\ unloading[h] > 0
  /\ unloading' = [unloading EXCEPT ![h] = @ - 1]
  /\ IF resolved
     THEN engineRef' = 0 /\ Released(h) /\ ResetState
     ELSE UNCHANGED <<engineRef, handleState, handleModel, handleCap, status, mode,
                      gpuInfo, progress, error, suggestedModelId, cachedModelId>>
  /\ UNCHANGED <<messages, saveEffectPending, abortControllerRef, initializingRef,
                 demoResponseIndex, modelId, testEnv, query, genResponse, mounted, cStatus, cCachedModelId,
                 aborted, initPc, initModel, genPc, genI, lastCall>>
DisposeSettledWith(h, resolved) ==
  /\ unloading[h] > 0
  /\ unloading' = [unloading EXCEPT ![h] = @ - 1]
  /\ engineRef' = 0
  /\ IF resolved THEN Released(h) ELSE ReleaseFailed(h)
  /\ ResetState
  /\ UNCHANGED <<messages, saveEffectPending, abortControllerRef, initializingRef, demoResponseIndex,
                 modelId, testEnv, query, genResponse, mounted, cStatus, cCachedModelId, aborted, initPc, initModel,
                 genPc, genI, lastCall>>

\* The cleanup resolves.
DisposeSettled(h) == DisposeSettledWith(h, TRUE)

\* ------------------------------------------------- controller: React renders

\* React renders the queued state: the callbacks now capture it.
Render ==
  /\ Stale
  /\ cStatus' = status
  /\ cCachedModelId' = cachedModelId
  /\ UNCHANGED <<status, mode, progress, error, suggestedModelId, cachedModelId,
                 messages, saveEffectPending, engineRef, abortControllerRef, initializingRef,
                 demoResponseIndex, modelId, testEnv, query, genResponse, gpuInfo, mounted, handleState, handleModel,
                 handleCap, aborted, initPc, initModel, genPc, genI, unloading,
                 lastCall>>

\* The parent renders the hook with another config.modelId.
SelectModel(m) ==
  /\ m # modelId
  /\ modelId' = m
  /\ cStatus' = status
  /\ cCachedModelId' = cachedModelId
  /\ UNCHANGED <<status, mode, progress, error, suggestedModelId, cachedModelId,
                 messages, saveEffectPending, engineRef, abortControllerRef, initializingRef,
                 demoResponseIndex, testEnv, query, genResponse, gpuInfo, mounted, handleState, handleModel, handleCap,
                 aborted, initPc, initModel, genPc, genI, unloading, lastCall>>

\* ------------------------------------------------- controller: behaviours

InitHook ==
  /\ status = "idle"
  /\ mode = "none"
  /\ gpuInfo = "none"
  /\ progress = 0
  /\ error = "none"
  /\ suggestedModelId = 0
  /\ cachedModelId = 0
  /\ messages = << >>
  /\ engineRef = 0
  /\ abortControllerRef = 0
  /\ initializingRef = FALSE
  /\ demoResponseIndex = 0
  /\ modelId = 1
  /\ cStatus = "idle"
  /\ cCachedModelId = 0
  /\ handleState = [h \in Handles |-> "none"]
  /\ handleModel = [h \in Handles |-> 0]
  /\ handleCap = [h \in Handles |-> "none"]
  /\ aborted = {}
  /\ initPc = [i \in Inits |-> "none"]
  /\ initModel = [i \in Inits |-> 0]
  /\ genPc = [g \in AllSends |-> "none"]
  /\ genI = [g \in AllSends |-> 0]
  /\ genResponse = [g \in AllSends |-> -1]
  /\ unloading = [h \in Handles |-> 0]
  /\ lastCall = [op |-> "none", outcome |-> "none"]
  /\ mounted = "no"
  /\ saveEffectPending = TRUE

\* What runs without a call from the user: the continuations of the pending
\* awaits, and renders.
Continuation ==
  \/ \E i \in Inits, hasGPU \in BOOLEAN : GpuCheckResolved(i, hasGPU) /\ UNCHANGED storeVars
  \/ \E i \in Inits : ImportResolved(i) /\ UNCHANGED storeVars
  \/ \E i \in Inits, cap \in Caps : CreateResolved(i, cap) /\ UNCHANGED storeVars
  \/ \E i \in Inits, text \in ErrorTexts : InitFailed(i, text) /\ UNCHANGED storeVars
  \/ \E g \in Sends : DemoTick(g) /\ UNCHANGED storeVars
  \/ \E g \in Sends : CompletionCreated(g) /\ UNCHANGED storeVars
  \/ \E g \in Sends : StreamChunk(g) /\ UNCHANGED storeVars
  \/ \E g \in Sends : StreamEnd(g) /\ UNCHANGED storeVars
  \/ \E g \in Sends, abortError \in BOOLEAN : GenerationFailed(g, abortError) /\ UNCHANGED storeVars
  \/ Render /\ UNCHANGED storeVars
  \/ \E m \in Models : SelectModel(m) /\ UNCHANGED storeVars

NextNoReset ==
  \/ initializeEngine /\ UNCHANGED storeVars
  \/ sendMessage /\ UNCHANGED storeVars
  \/ stopGeneration /\ UNCHANGED storeVars
  \/ Continuation

Next ==
  \/ NextNoReset
  \/ reset /\ UNCHANGED storeVars
  \/ \E h \in Handles : DisposeSettled(h) /\ UNCHANGED storeVars

\* The user calls the hook only through the callbacks of a render that has
\* seen the latest state.
NextRendered ==
  \/ ~Stale /\ initializeEngine /\ UNCHANGED storeVars
  \/ ~Stale /\ sendMessage /\ UNCHANGED storeVars
  \/ ~Stale /\ stopGeneration /\ UNCHANGED storeVars
  \/ ~Stale /\ reset /\ UNCHANGED storeVars
  \/ \E h \in Handles : DisposeSettled(h) /\ UNCHANGED storeVars
  \/ Continuation

\* The life of the engine on its own: initialisations and resets through fresh
\* callbacks, no generation; reset may be called again while a disposal is
\* pending, and the cleanup of an engine may fail.
NextEngine ==
  \/ ~Stale /\ initializeEngine /\ UNCHANGED storeVars
  \/ ~Stale /\ resetWithin(MaxPendingResets) /\ UNCHANGED storeVars
  \/ ~Stale /\ resetUnloadThrows /\ UNCHANGED storeVars
  \/ \E h \in Handles, resolved \in BOOLEAN :
       DisposeSettledWith(h, resolved) /\ UNCHANGED storeVars
  \/ \E i \in Inits, hasGPU \in BOOLEAN : GpuCheckResolved(i, hasGPU) /\ UNCHANGED storeVars
  \/ \E i \in Inits : ImportResolved(i) /\ UNCHANGED storeVars
  \/ \E i \in Inits, cap \in Caps : CreateResolved(i, cap) /\ UNCHANGED storeVars
  \/ \E i \in Inits, text \in ErrorTexts : InitFailed(i, text) /\ UNCHANGED storeVars
  \/ Render /\ UNCHANGED storeVars
  \/ \E m \in Models : SelectModel(m) /\ UNCHANGED storeVars

\* ----------------------------------------------------- controller: claims

\* The accepted initializeEngine calls whose CreateMLCEngine has been invoked
\* and has neither resolved nor rejected.
Constructing == {i \in Inits : initPc[i] = "create"}

\* The generation loops that are running: a demo typing loop between two of
\* its timers, or a token stream being consumed.
ActiveLoops == {g \in Sends : genPc[g] \in {"typing", "streaming"}}

LiveHandles == {h \in Handles : handleState[h] = "live"}

C2_OneGenerationLoop == Cardinality(ActiveLoops) <= 1

\* C3: a sendMessage call made while the status the hook returned is
\* generating is ignored without a fault: it appends no message, starts no
\* stream, and leaves status, error and the cancellation signal as they were.
C3_RejectedWhileGenerating ==
  [][(sendMessage /\ cStatus = "generating") =>
       /\ lastCall'.outcome = "ignored"
       /\ UNCHANGED <<messages, genPc, status, error, abortControllerRef, aborted>>]_vars

\* sendMessage was called during a generation.
C3_Witness ==
  /\ cStatus = "generating"
  /\ ActiveLoops # {}
  /\ lastCall = [op |-> "sendMessage", outcome |-> "ignored"]

\* C4: at any time at most one engine handle is constructed and not yet
\* disposed.
C4_OneLiveHandle == Cardinality(LiveHandles) <= 1

\* C5: whenever status is ready a live engine handle is held and cachedModelId
\* is the model that handle was constructed for.
C5_ReadyHasEngine ==
  status = "ready" =>
    /\ engineRef # 0
    /\ handleState[engineRef] = "live"
    /\ cachedModelId = handleModel[engineRef]

\* The status changes the claim allows.  A generation started from ready is an
\* engine generation (creating or streaming), one started from demo is a
\* typing loop.  In the test environment initializeEngine sets loading and
\* then demo in one run, two allowed changes in a row.
AllowedChange ==
  \/ status \in {"idle", "error"} /\ status' = "loading"
  \/ status = "loading" /\ status' \in {"ready", "demo", "error"}
  \/ status = "ready" /\ status' = "generating"
  \/ status = "demo" /\ status' = "generating"
  \/ /\ status = "generating" /\ status' = "ready"
     /\ \E g \in Sends : genPc[g] \in {"creating", "streaming"}
  \/ /\ status = "generating" /\ status' = "demo"
     /\ \E g \in Sends : genPc[g] = "typing"
  \/ status' = "idle"
  \/ status \in {"idle", "error"} /\ status' = "demo" /\ testEnv

\* C6: every change of status is one of the allowed transitions.
C6_AllowedTransitions == [][status' # status => AllowedChange]_vars

\* --------------------------------------------------------- store: the lock

\* operationQueue.shift() (storage.ts:197): the waiter woken and the rest.
shiftLast(q) == [next |-> q[Len(q)], rest |-> SubSeq(q, 1, Len(q) - 1)]
shift(q) == [next |-> Head(q), rest |-> Tail(q)]

\* The finally block of withDatabaseOperation for call o, whose promise settles
\* with res; st is opState after the step that led here.  The woken waiter's
\* continuation is a microtask queued by resolve(): it runs before any other
\* event, sets operationInProgress again and invokes its operation(), whose
\* first act is indexedDB.open().
Finally(o, res, st, oq) ==
  /\ callResult' = [callResult EXCEPT ![o] = res]
  /\ IF operationQueue = << >>
     THEN /\ operationInProgress' = FALSE
          /\ operationQueue' = operationQueue
          /\ callState' = [callState EXCEPT ![o] = "settled"]
          /\ opState' = st
          /\ openq' = oq
     ELSE LET s == shift(operationQueue) IN
          /\ operationInProgress' = TRUE
          /\ operationQueue' = s.rest
          /\ callState' = [callState EXCEPT ![o] = "settled", ![s.next] = "running"]
          /\ opState' = [st EXCEPT ![s.next] = "open"]
          /\ openq' = Append(oq, s.next)

\* The operation() closure of call o returned or threw (outcome out) in this
\* step, which leaves oq as the pending open requests: Promise.race settles
\* with the outcome unless the timeout settled it before.
OperationEndsSwallowing(o, out, oq) ==
  /\ opOutcome' = [opOutcome EXCEPT ![o] = out]
  /\ IF callState[o] = "running"
     THEN Finally(o, "resolved", [opState EXCEPT ![o] = "done"], oq)
     ELSE /\ opState' = [opState EXCEPT ![o] = "done"]
          /\ openq' = oq
          /\ UNCHANGED <<operationInProgress, operationQueue, callState, callResult>>
OperationEndsWith(o, out, oq) ==
  /\ opOutcome' = [opOutcome EXCEPT ![o] = out]
  /\ IF callState[o] = "running"
     THEN Finally(o, IF out = "quota" THEN "quota" ELSE "resolved",
                  [opState EXCEPT ![o] = "done"], oq)
     ELSE /\ opState' = [opState EXCEPT ![o] = "done"]
          /\ openq' = oq
          /\ UNCHANGED <<operationInProgress, operationQueue, callState, callResult>>

OperationEnds(o, out) == OperationEndsWith(o, out, openq)

\* The operation() closure of call o moves on to await something else.
OperationAwaits(o, where) ==
  /\ opState' = [opState EXCEPT ![o] = where]
  /\ UNCHANGED <<operationInProgress, operationQueue, callState, callResult, opOutcome,
                 openq>>

\* typeof indexedDB !== 'undefined'
isIndexedDBAvailableAlways == TRUE
isIndexedDBAvailable == indexedDBAvailable

\* A caller enters saveMessages / loadMessages / clearMessages.
withDatabaseOperation(kind, payload) ==
  LET o == NextOp IN
  /\ o \in Ops
  /\ opKind' = [opKind EXCEPT ![o] = kind]
  /\ opPayload' = [opPayload EXCEPT ![o] = payload]
  /\ IF ~isIndexedDBAvailable
     THEN \* the early return before the lock is touched
          /\ callState' = [callState EXCEPT ![o] = "settled"]
          /\ callResult' = [callResult EXCEPT ![o] = "resolved"]
          /\ UNCHANGED <<operationInProgress, operationQueue, opState, waited, openq>>
     ELSE IF operationInProgress
     THEN /\ operationQueue' = Append(operationQueue, o)
          /\ callState' = [callState EXCEPT ![o] = "waiting"]
          /\ waited' = waited \cup {o}
          /\ UNCHANGED <<operationInProgress, callResult, opState, openq>>
     ELSE /\ operationInProgress' = TRUE
          /\ callState' = [callState EXCEPT ![o] = "running"]
          /\ opState' = [opState EXCEPT ![o] = "open"]
          /\ openq' = Append(openq, o)
          /\ UNCHANGED <<operationQueue, callResult, waited>>
  /\ UNCHANGED <<indexedDBAvailable, opOutcome, opReturn, txq, txReqs, txUndo, db>>

saveMessages(payload) == withDatabaseOperation("save", payload)

loadMessages == withDatabaseOperation("load", << >>)

clearMessages == withDatabaseOperation("clear", << >>)

\* The 10 s timer of withDatabaseOperation fires while the race is undecided.
\* It rejects the race; the operation() closure is not cancelled.
TimeoutArmedNever(o) == FALSE
TimeoutArmed(o) == callState[o] = "running"

Timeout(o) ==
  /\ TimeoutArmed(o)
  /\ Finally(o, "timeout", opState, openq)
  /\ UNCHANGED <<indexedDBAvailable, opKind, opPayload, opReturn, opOutcome, waited, txq, txReqs,
                 txUndo, db>>

\* ------------------------------------------------------ store: reading

\* store.getAll(): the records in ascending order of their key, the id.
RECURSIVE getAll(_)
getAll(content) ==
  IF content = {} THEN << >>
  ELSE LET first == CHOOSE x \in content : \A y \in content : x.id <= y.id
       IN <<first>> \o getAll(content \ {first})

\* What loadMessages resolves to: request.result.map(...), in the order read.
LoadResult(content) ==
  LET read == getAll(content) IN [k \in 1..Len(read) |-> FromStorable(read[k])]

\* ------------------------------------------------------ store: the backend

\* A request of a transaction: its type and, for an add, the record.
Req(t, rec) == [t |-> t, rec |-> rec]

RemoveTx(o) == SelectSeq(txq, LAMBDA x : x # o)

TxIndex(o) == CHOOSE i \in 1..Len(txq) : txq[i] = o

Conflict(a, b) == opKind[a] # "load" \/ opKind[b] # "load"

\* IndexedDB runs transactions with overlapping scope in creation order; only
\* read-only ones run side by side.
Runnable(o) ==
  /\ o \in Range(txq)
  /\ \A i \in 1..Len(txq) : i < TxIndex(o) => ~Conflict(txq[i], o)

\* indexedDB.open() requests on one database are answered in the order made.
\* openDatabase: request.onsuccess, then db.transaction() and the first request.
OpenSuccess(o) ==
  /\ opState[o] = "open"
  /\ openq # << >> /\ Head(openq) = o
  /\ openq' = Tail(openq)
  /\ txq' = Append(txq, o)
  /\ txReqs' = [txReqs EXCEPT ![o] =
        IF opKind[o] = "load" THEN <<Req("getAll", 0)>> ELSE <<Req("clear", 0)>>]
  /\ opState' = [opState EXCEPT ![o] = IF opKind[o] = "load" THEN "getAll" ELSE "clear"]
  /\ UNCHANGED <<indexedDBAvailable, operationInProgress, operationQueue, opKind,
                 opPayload, opReturn, callState, callResult, opOutcome, waited, txUndo, db>>

\* openDatabase: request.onerror.  Every operation catches it and ends normally.
OpenError(o) ==
  /\ opState[o] = "open"
  /\ openq # << >> /\ Head(openq) = o
  /\ OperationEndsWith(o, "swallowed", Tail(openq))
  /\ UNCHANGED <<indexedDBAvailable, opKind, opPayload, opReturn, waited, txq, txReqs, txUndo, db>>

\* openDatabase: its own 10 s timer, set after the one of withDatabaseOperation
\* with the same delay, so it fires only after that one has.  The request
\* itself stays with the backend.
OpenTimeout(o) ==
  /\ opState[o] = "open"
  /\ callResult[o] = "timeout"
  /\ OperationEnds(o, "swallowed")
  /\ UNCHANGED <<indexedDBAvailable, opKind, opPayload, opReturn, waited, txq, txReqs, txUndo, db>>

\* The backend answers an open request whose operation gave up on it: the
\* promise is already rejected, the answer changes nothing.
OpenIgnored(o) ==
  /\ opState[o] # "open"
  /\ openq # << >> /\ Head(openq) = o
  /\ openq' = Tail(openq)
  /\ UNCHANGED <<indexedDBAvailable, operationInProgress, operationQueue, opKind,
                 opPayload, opReturn, callState, callResult, opState, opOutcome, waited, txq,
                 txReqs, txUndo, db>>

\* store.clear() (storage.ts:257, 378): what the request leaves in the store.
ClearSkipped(content) == content
ClearEffect(content) == {}

\* The add requests saveMessages issues for its payload (storage.ts:263-289);
\* thrower is the index whose store.add() throws synchronously, 0 for none.
AddRequestsButFirst(payload, thrower) ==
  LET keep == SelectSeq([i \in 1..Len(payload) |-> i], LAMBDA i : i # thrower /\ i # 1)
  IN [j \in 1..Len(keep) |-> Req("add", Storable(payload[keep[j]]))]
AddRequests(payload, thrower) ==
  LET keep == SelectSeq([i \in 1..Len(payload) |-> i], LAMBDA i : i # thrower)
  IN [j \in 1..Len(keep) |-> Req("add", Storable(payload[keep[j]]))]

\* clearRequest.onsuccess.  saveMessages then issues every add in one
\* synchronous pass; a store.add() that throws rejects Promise.all and ends the
\* operation, but it aborts nothing: the requests already issued stay in the
\* transaction, which commits them.
ClearSuccess(o) ==
  /\ Runnable(o)
  /\ txReqs[o] # << >>
  /\ Head(txReqs[o]).t = "clear"
  /\ db' = ClearEffect(db)
  /\ txUndo' = [txUndo EXCEPT ![o] = db]
  /\ IF opKind[o] = "clear"
     THEN /\ txReqs' = [txReqs EXCEPT ![o] = << >>]
          /\ OperationAwaits(o, "commit")
     ELSE \E thrower \in 0..Len(opPayload[o]) :
          /\ txReqs' = [txReqs EXCEPT ![o] = AddRequests(opPayload[o], thrower)]
          /\ IF thrower = 0
             THEN OperationAwaits(o, IF opPayload[o] = << >> THEN "commit" ELSE "adds")
             ELSE \E e \in {"quota", "swallowed"} : OperationEnds(o, e)
  /\ UNCHANGED <<indexedDBAvailable, opKind, opPayload, opReturn, waited, txq>>

\* addRequest.onsuccess.
AddSuccess(o) ==
  /\ Runnable(o)
  /\ txReqs[o] # << >>
  /\ Head(txReqs[o]).t = "add"
  /\ \A r \in db : r.id # Head(txReqs[o]).rec.id
  /\ db' = db \cup {Head(txReqs[o]).rec}
  /\ txReqs' = [txReqs EXCEPT ![o] = Tail(@)]
  /\ OperationAwaits(o, IF opState[o] = "adds" /\ Len(txReqs[o]) = 1
                        THEN "commit" ELSE opState[o])
  /\ UNCHANGED <<indexedDBAvailable, opKind, opPayload, opReturn, waited, txq, txUndo>>

\* request.onsuccess of store.getAll(): loadMessages returns what it read.
GetAllSuccess(o) ==
  /\ Runnable(o)
  /\ txReqs[o] # << >>
  /\ Head(txReqs[o]).t = "getAll"
  /\ txq' = RemoveTx(o)
  /\ txReqs' = [txReqs EXCEPT ![o] = << >>]
  /\ opReturn' = [opReturn EXCEPT ![o] = LoadResult(db)]
  /\ OperationEnds(o, "ok")
  /\ UNCHANGED <<indexedDBAvailable, opKind, opPayload, waited, txUndo, db>>

\* A request's onerror.  The unhandled error event aborts the transaction and
\* rolls its writes back.  saveMessages rethrows only the quota error of an add.
RequestError(o, e) ==
  /\ Runnable(o)
  /\ txReqs[o] # << >>
  /\ e = "quota" => Head(txReqs[o]).t = "add"
  /\ db' = IF Head(txReqs[o]).t = "add" THEN txUndo[o] ELSE db
  /\ txq' = RemoveTx(o)
  /\ txReqs' = [txReqs EXCEPT ![o] = << >>]
  /\ txUndo' = [txUndo EXCEPT ![o] = {}]
  /\ IF opState[o] \in {"clear", "adds", "getAll"}
     THEN OperationEnds(o, e)
     ELSE UNCHANGED <<operationInProgress, operationQueue, callState, callResult,
                      opState, opOutcome, openq>>
  /\ UNCHANGED <<indexedDBAvailable, opKind, opPayload, opReturn, waited>>

\* transaction.oncomplete: the writes are committed.
TxComplete(o) ==
  /\ Runnable(o)
  /\ txReqs[o] = << >>
  /\ txq' = RemoveTx(o)
  /\ txUndo' = [txUndo EXCEPT ![o] = {}]
  /\ IF opState[o] = "commit"
     THEN OperationEnds(o, "ok")
     ELSE UNCHANGED <<operationInProgress, operationQueue, callState, callResult,
                      opState, opOutcome, openq>>
  /\ UNCHANGED <<indexedDBAvailable, opKind, opPayload, opReturn, waited, txReqs, db>>

\* transaction.onabort / onerror at commit: 'Transaction aborted' is swallowed.
TxAbort(o) ==
  /\ Runnable(o)
  /\ txReqs[o] = << >>
  /\ db' = txUndo[o]
  /\ txq' = RemoveTx(o)
  /\ txUndo' = [txUndo EXCEPT ![o] = {}]
  /\ IF opState[o] = "commit"
     THEN OperationEnds(o, "swallowed")
     ELSE UNCHANGED <<operationInProgress, operationQueue, callState, callResult,
                      opState, opOutcome, openq>>
  /\ UNCHANGED <<indexedDBAvailable, opKind, opPayload, opReturn, waited, txReqs>>

\* ------------------------------------------------------- store: behaviours

InitStore ==
  /\ indexedDBAvailable \in BOOLEAN
  /\ operationInProgress = FALSE
  /\ operationQueue = << >>
  /\ opKind = [o \in Ops |-> "none"]
  /\ opPayload = [o \in Ops |-> << >>]
  /\ callState = [o \in Ops |-> "idle"]
  /\ callResult = [o \in Ops |-> "none"]
  /\ opState = [o \in Ops |-> "none"]
  /\ opOutcome = [o \in Ops |-> "none"]
  /\ opReturn = [o \in Ops |-> << >>]
  /\ waited = {}
  /\ openq = << >>
  /\ txq = << >>
  /\ txReqs = [o \in Ops |-> << >>]
  /\ txUndo = [o \in Ops |-> {}]
  /\ db \in {{}, PriorHistory}

\* The controller on its own: the page opens, the store is left aside.
Init ==
  /\ InitHook
  /\ query = NoQuery
  /\ testEnv \in BOOLEAN
  /\ InitStore
  /\ indexedDBAvailable
  /\ db = {}

\* The store on its own, called by any client.
InitWithStore ==
  /\ InitHook
  /\ query = NoQuery
  /\ testEnv = FALSE
  /\ InitStore

NextStore ==
  \/ \E p \in Payloads : NextOp <= MaxStoreCalls /\ saveMessages(p) /\ UNCHANGED hookVars
  \/ NextOp <= MaxStoreCalls /\ loadMessages /\ UNCHANGED hookVars
  \/ NextOp <= MaxStoreCalls /\ clearMessages /\ UNCHANGED hookVars
  \/ \E o \in Ops : Timeout(o) /\ UNCHANGED hookVars
  \/ \E o \in Ops : OpenSuccess(o) /\ UNCHANGED hookVars
  \/ \E o \in Ops : OpenError(o) /\ UNCHANGED hookVars
  \/ \E o \in Ops : OpenTimeout(o) /\ UNCHANGED hookVars
  \/ \E o \in Ops : OpenIgnored(o) /\ UNCHANGED hookVars
  \/ \E o \in Ops : ClearSuccess(o) /\ UNCHANGED hookVars
  \/ \E o \in Ops : AddSuccess(o) /\ UNCHANGED hookVars
  \/ \E o \in Ops : GetAllSuccess(o) /\ UNCHANGED hookVars
  \/ \E o \in Ops, e \in {"quota", "swallowed"} : RequestError(o, e) /\ UNCHANGED hookVars
  \/ \E o \in Ops : TxComplete(o) /\ UNCHANGED hookVars
  \/ \E o \in Ops : TxAbort(o) /\ UNCHANGED hookVars

Spec == Init /\ [][Next]_vars

\* Behaviours in which reset is never called.
SpecNoReset == Init /\ [][NextNoReset]_vars

\* Behaviours in which no call is made through outdated callbacks.
SpecRendered == Init /\ [][NextRendered]_vars

\* The engine's life without generations.
SpecEngine == Init /\ [][NextEngine]_vars

SpecStore == InitWithStore /\ [][NextStore]_vars

\* The caller of a running operation is guaranteed its timer; nothing is
\* assumed of the backend, which may never answer.
FairSpecStore ==
  SpecStore /\ \A o \in StoreCalls : WF_vars(Timeout(o) /\ UNCHANGED hookVars)

\* The continuation of generation g that is due next: the 15 ms timer of the
\* typing loop fires, or the engine settles the completion call or the stream.
GenerationContinues(g) ==
  \/ DemoTick(g)
  \/ CompletionCreated(g)
  \/ StreamChunk(g)
  \/ StreamEnd(g)
  \/ \E abortError \in BOOLEAN : GenerationFailed(g, abortError)

\* Timers fire and the engine answers: no generation loop waits forever.
FairSpecRendered ==
  SpecRendered /\ \A g \in Sends : WF_vars(GenerationContinues(g) /\ UNCHANGED storeVars)

\* -------------------------------------------- controller with its store

\* clearMessages of the hook (part_000:466-470): setMessages([]) and, in the
\* same run, saveMessages([]), which it awaits.
hookClearMessages ==
  /\ Call("clearMessages", "accepted")
  /\ messages' = << >>
  /\ saveEffectPending' = TRUE
  /\ saveMessages(<< >>)
  /\ UNCHANGED <<status, mode, progress, error, suggestedModelId, cachedModelId,
                 engineRef, abortControllerRef, initializingRef, demoResponseIndex,
                 modelId, testEnv, query, genResponse, gpuInfo, cStatus, cCachedModelId, handleState, handleModel,
                 handleCap, aborted, initPc, initModel, genPc, genI, unloading, mounted>>

\* The load effect of the first render (part_000:81-94) calls loadMessages.
LoadEffect ==
  /\ mounted = "no"
  /\ mounted' = "loading"
  /\ loadMessages
  /\ UNCHANGED <<status, mode, progress, error, suggestedModelId, cachedModelId,
                 messages, engineRef, abortControllerRef, initializingRef,
                 demoResponseIndex, modelId, testEnv, query, genResponse, gpuInfo, cStatus, cCachedModelId,
                 handleState, handleModel, handleCap, aborted, initPc, initModel, genPc,
                 genI, unloading, lastCall, saveEffectPending>>

\* React runs the effects of a render in the order of their declaration: on
\* the first render the load effect (part_000:81) before the save effect
\* (part_000:97).
LoadEffectRanAlways == TRUE
LoadEffectRan == mounted # "no"

\* The save effect (part_000:97-101) of a render that found messages set anew;
\* on the first render it runs after the load effect.
SaveEffect ==
  /\ LoadEffectRan
  /\ saveEffectPending
  /\ saveEffectPending' = FALSE
  /\ saveMessages(messages)
  /\ UNCHANGED <<status, mode, progress, error, suggestedModelId, cachedModelId,
                 messages, engineRef, abortControllerRef, initializingRef,
                 demoResponseIndex, modelId, testEnv, query, genResponse, gpuInfo, cStatus, cCachedModelId,
                 handleState, handleModel, handleCap, aborted, initPc, initModel, genPc,
                 genI, unloading, lastCall, mounted>>

\* loadStoredMessages goes on after await loadMessagesFromStorage(), in the
\* run that settled call o with the list stored: a list that is not empty
\* replaces the conversation.
LoadDelivered(o, stored) ==
  /\ mounted' = "loaded"
  /\ IF callState[o] = "running" /\ stored # << >>
     THEN /\ messages' = stored
          /\ saveEffectPending' = TRUE
     ELSE UNCHANGED <<messages, saveEffectPending>>
  /\ UNCHANGED <<status, mode, progress, error, suggestedModelId, cachedModelId,
                 engineRef, abortControllerRef, initializingRef, demoResponseIndex,
                 modelId, testEnv, query, genResponse, gpuInfo, cStatus, cCachedModelId, handleState, handleModel,
                 handleCap, aborted, initPc, initModel, genPc, genI, unloading,
                 lastCall>>

\* The page in the test environment (demo mode) with its store.
InitPersist ==
  /\ InitHook
  /\ query = NoQuery
  /\ testEnv = TRUE
  /\ InitStore
  /\ indexedDBAvailable

\* The steps of a backend in which no request fails and no wait times out,
\* seen from the hook; a settled loadMessages is the one of the load effect.
BackendStep ==
  \/ \E o \in Ops : OpenSuccess(o) /\ UNCHANGED hookVars
  \/ \E o \in Ops : ClearSuccess(o) /\ opOutcome'[o] = opOutcome[o] /\ UNCHANGED hookVars
  \/ \E o \in Ops : AddSuccess(o) /\ UNCHANGED hookVars
  \/ \E o \in Ops : GetAllSuccess(o) /\ LoadDelivered(o, LoadResult(db))
  \/ \E o \in Ops : TxComplete(o) /\ UNCHANGED hookVars

\* The effects of a render run before the page handles the user's next event.
EffectsRan == mounted # "no" /\ ~saveEffectPending

NextPersist ==
  \/ LoadEffect
  \/ SaveEffect
  \/ EffectsRan /\ hookClearMessages
  \/ EffectsRan /\ NextInitId <= MaxPageInits /\ initializeEngine /\ UNCHANGED storeVars
  \/ EffectsRan /\ NextSendId <= MaxPageSends /\ sendMessage /\ UNCHANGED storeVars
  \/ EffectsRan /\ stopGeneration /\ UNCHANGED storeVars
  \/ EffectsRan /\ reset /\ UNCHANGED storeVars
  \/ \E g \in Sends : DemoTick(g) /\ UNCHANGED storeVars
  \/ Render /\ UNCHANGED storeVars
  \/ BackendStep

SpecPersist == InitPersist /\ [][NextPersist]_vars

\* The backend refuses to open the database for the loadMessages call o,
\* which swallows the failure and returns [] to the load effect
\* (storage.ts:352-355).
LoadRefused(o) ==
  /\ opKind[o] = "load"
  /\ OpenError(o)
  /\ LoadDelivered(o, << >>)

\* The page from its mount on, with a user who does not delete the
\* conversation and a backend that may refuse to open the database for the
\* load.
NextMount ==
  \/ LoadEffect
  \/ SaveEffect
  \/ EffectsRan /\ NextInitId <= MaxPageInits /\ initializeEngine /\ UNCHANGED storeVars
  \/ EffectsRan /\ NextSendId <= MaxPageSends /\ sendMessage /\ UNCHANGED storeVars
  \/ EffectsRan /\ stopGeneration /\ UNCHANGED storeVars
  \/ EffectsRan /\ reset /\ UNCHANGED storeVars
  \/ \E g \in Sends : DemoTick(g) /\ UNCHANGED storeVars
  \/ Render /\ UNCHANGED storeVars
  \/ BackendStep
  \/ \E o \in Ops : LoadRefused(o)

SpecMount == InitPersist /\ [][NextMount]_vars

\* React runs the effects of a render once it has committed, and the backend
\* answers every request, with success unless it refuses it.
FairSpecMount ==
  SpecMount /\ WF_vars(LoadEffect) /\ WF_vars(SaveEffect) /\ WF_vars(BackendStep)

\* A session in the test environment: every initialization ends in demo mode
\* and every generation is a typing loop; calls come through fresh callbacks.
InitDemo ==
  /\ InitHook
  /\ query = NoQuery
  /\ testEnv = TRUE
  /\ InitStore
  /\ indexedDBAvailable
  /\ db = {}

NextDemo ==
  \/ ~Stale /\ initializeEngine /\ UNCHANGED storeVars
  \/ ~Stale /\ sendMessageWithin(MaxDemoSends) /\ UNCHANGED storeVars
  \/ ~Stale /\ stopGeneration /\ UNCHANGED storeVars
  \/ ~Stale /\ reset /\ UNCHANGED storeVars
  \/ \E g \in AllSends : DemoTick(g) /\ UNCHANGED storeVars
  \/ Render /\ UNCHANGED storeVars

SpecDemo == InitDemo /\ [][NextDemo]_vars

\* The catalog on its own: a client holding any arguments calls one query.
InitCatalog ==
  /\ InitHook
  /\ testEnv = FALSE
  /\ InitStore
  /\ indexedDBAvailable
  /\ db = {}
  /\ query \in [op : {"none"}, arg : CatalogArgs, result : {"none"}]

NextCatalog ==
  \/ CallGetAvailableModels /\ UNCHANGED storeVars
  \/ CallGetNextSmallerModel /\ UNCHANGED storeVars
  \/ CallGetSmallestModel /\ UNCHANGED storeVars

SpecCatalog == InitCatalog /\ [][NextCatalog]_vars

\* The window of an accelerated send on its own, for conversations of every
\* length up to MaxPrior.
InitWindow ==
  /\ InitHook
  /\ testEnv = FALSE
  /\ InitStore
  /\ indexedDBAvailable
  /\ db = {}
  /\ query \in [op : {"none"}, arg : WindowArgs, result : {"none"}]

NextWindow == CallConversationHistory /\ UNCHANGED storeVars

SpecWindow == InitWindow /\ [][NextWindow]_vars

\* ---------------------------------------------------------- store: claims

\* The operation() closure of call o has been invoked and has not returned.
Executing(o) == opState[o] \notin {"none", "done"}

\* No call is waiting, no operation() closure is running and the backend has
\* no transaction left.
Quiescent ==
  /\ \A o \in Ops : ~Executing(o) /\ callState[o] \in {"idle", "settled"}
  /\ txq = << >>

Saves == {o \in Arrived : opKind[o] = "save"}

Writers == {o \in Arrived : opKind[o] \in {"save", "clear"}}

\* The writing call that arrived last.
LastWriter == CHOOSE o \in Writers : \A x \in Writers : x <= o

\* Two saveMessages calls were made, the later one while another call held the
\* lock, nothing was written after it, and everything has run to its end.
OverlappingSavesDone ==
  /\ indexedDBAvailable
  /\ Quiescent
  /\ \E a, b \in Saves : a < b /\ b \in waited /\ b = LastWriter

\* The store holds records of one payload only (or the history it had).
NoMixture ==
  \/ db \subseteq PriorHistory
  \/ \E o \in Writers : db \subseteq Records(opPayload[o])

\* C7 (as claimed): at any time at most one store operation is executing: an
\* admitted operation never starts while another one has not finished,
\* also when the timeout of the other one has fired.
C7_OneOperationAtATime == Cardinality({o \in Ops : Executing(o)}) <= 1

\* C8 (as claimed): once two overlapping saveMessages calls have completed,
\* the store holds exactly the payload of the call admitted last.
C8_LastSaveWins ==
  OverlappingSavesDone => db = Records(opPayload[LastWriter])

\* C8 (amended): once two overlapping saveMessages calls have run to their
\* end, the store holds exactly the payload of the call admitted last if that
\* call's save succeeded, and in every case it holds records of one payload
\* only (or the earlier content), never a mixture of the two.
C8_LastSuccessfulSaveWins ==
  OverlappingSavesDone =>
    /\ opOutcome[LastWriter] = "ok" => db = Records(opPayload[LastWriter])
    /\ NoMixture

\* C8 witness: two saves with different non-empty payloads, the second queued
\* behind another call, both succeeded.
C8_Witness ==
  /\ OverlappingSavesDone
  /\ \E a, b \in Saves :
       /\ a < b /\ b = LastWriter /\ b \in waited
       /\ opOutcome[a] = "ok" /\ opOutcome[b] = "ok"
       /\ opPayload[a] # << >> /\ opPayload[b] # << >>
       /\ opPayload[a] # opPayload[b]

\* C9: store operations start in arrival order: while a caller is still
\* waiting, no caller that arrived after it has begun its operation.
C9_FifoAdmission ==
  \A i, j \in Ops :
    (i < j /\ callState[i] = "waiting") => callState[j] \in {"idle", "waiting"}

\* C9 witness: the first waiter has been admitted from the queue while a
\* later caller is still waiting.
C9_Witness ==
  /\ callState[1] = "settled"
  /\ callState[2] = "running" /\ 2 \in waited
  /\ callState[3] = "waiting"

\* C10: every call to saveMessages, loadMessages or clearMessages that has
\* entered withDatabaseOperation, waiting or running, eventually settles, even
\* when the backend never answers.
C10_EveryCallSettles ==
  \A o \in StoreCalls :
    (callState[o] \in {"waiting", "running"}) ~> (callState[o] = "settled")

\* C10 witness: a call that queued behind an operation whose backend never
\* answered has settled, the earlier call having been released by its timeout.
C10_Witness ==
  \E a, b \in Ops :
    /\ a < b /\ b \in waited
    /\ callResult[a] = "timeout" /\ opState[a] = "open"
    /\ callState[b] = "settled"

\* The messages of a list, whatever their order.
Members(list) == {list[k] : k \in 1..Len(list)}

\* The list holds exactly the messages of the payload, each once.
SameMessages(list, payload) ==
  /\ Len(list) = Len(payload)
  /\ Members(list) = Range(payload)

\* Call a is a saveMessages, call b the loadMessages made next, and both have
\* run to their end.
SaveThenLoad(a, b) ==
  /\ b = a + 1
  /\ opKind[a] = "save" /\ opKind[b] = "load"
  /\ opState[a] = "done" /\ opState[b] = "done"
  /\ callState[a] = "settled" /\ callState[b] = "settled"

\* C12 (as claimed): saveMessages(M) followed by loadMessages() returns exactly
\* the messages of M, in some order.
C12_RoundTrip ==
  \A a, b \in Ops : SaveThenLoad(a, b) => SameMessages(opReturn[b], opPayload[a])

\* C12 (amended): saveMessages(M) followed by loadMessages(), when both
\* operations succeeded, returns exactly the messages of M (same id, role,
\* content and timestamp for each), in some order.
C12_RoundTripWhenSuccessful ==
  \A a, b \in Ops :
    (SaveThenLoad(a, b) /\ opOutcome[a] = "ok" /\ opOutcome[b] = "ok")
      => SameMessages(opReturn[b], opPayload[a])

\* C12 witness: a two-message conversation was saved over an earlier history
\* and read back, in another order than it was given.
C12_Witness ==
  \E a, b \in Ops :
    /\ SaveThenLoad(a, b) /\ opOutcome[a] = "ok" /\ opOutcome[b] = "ok"
    /\ callResult[b] = "resolved"
    /\ Len(opPayload[a]) = 2
    /\ opReturn[b][1] = opPayload[a][2]

\* C13: every list loadMessages returns is in ascending order of timestamp.
C13_LoadSortedByTimestamp ==
  \A o \in Ops : \A k \in 1..(Len(opReturn[o]) - 1) :
    opReturn[o][k].timestamp <= opReturn[o][k + 1].timestamp

\* ------------------------------------------- controller with store: claims

\* The effects of the latest render have run and the store is at rest.
PageAtRest == Quiescent /\ ~saveEffectPending

\* What the store can hold when it holds whole conversations only.
WholeConversations ==
  {{}, PriorHistory} \cup {Records(opPayload[o]) : o \in Saves}

\* C11: with a backend in which nothing fails or times out, whenever no store
\* operation is running or queued the store holds exactly the records of the
\* conversation in memory, and whenever no transaction is open the store holds
\* a whole conversation, never a part of one.
C11_StoreMatchesConversation ==
  /\ PageAtRest => db = Records(messages)
  /\ txq = << >> => db \in WholeConversations

\* C11 witness: a conversation of two messages has been written and the store
\* has come to rest with it.
C11_Witness ==
  /\ PageAtRest
  /\ Len(messages) = 2
  /\ db = Records(messages)
  /\ \E o \in Saves : opState[o] = "done" /\ opPayload[o] = messages

\* C14 (as claimed): after clearMessages, with no other call of the user since,
\* once its save and everything queued have completed the conversation in
\* memory is empty and a load from the store returns the empty list.
C14_ClearedStaysCleared ==
  (lastCall.op = "clearMessages" /\ PageAtRest) =>
    (messages = << >> /\ LoadResult(db) = << >>)

\* ------------------------------------ controller: claims on reset

\* What reset leaves when it completes.
ResetOutcome ==
  /\ status' = "idle"
  /\ mode' = "none"
  /\ gpuInfo' = "none"
  /\ progress' = 0
  /\ error' = "none"
  /\ suggestedModelId' = 0
  /\ cachedModelId' = 0
  /\ engineRef' = 0

\* reset completes in the step of its call: there was no engine, or the engine
\* exposed neither unload nor dispose, so nothing was invoked.
ResetCompletesAtOnce == resetWithin(MaxPendingResets) /\ unloading' = unloading

\* C15 (as claimed): in the step in which a reset completes, status is idle,
\* mode, error, suggestion and cached model id are unset, progress is 0 and the
\* engine reference is empty; when the handle exposed a disposal capability
\* exactly one invocation of it has been made, and none when it exposed none.
C15_ResetCompletion ==
  [][/\ ResetCompletesAtOnce => ResetOutcome
     /\ \A h \in Handles :
          (\E resolved \in BOOLEAN : DisposeSettledWith(h, resolved)) =>
            (ResetOutcome /\ unloading[h] = 1)]_vars

\* C16: a step of reset leaves the messages list as it was, asks for no save of
\* it and makes no call of the store.
C16_ResetKeepsConversation ==
  [][reset => /\ messages' = messages
              /\ saveEffectPending' = saveEffectPending
              /\ Arrived' = Arrived
              /\ opPayload' = opPayload]_vars

\* C16 witness: reset was called on a conversation of two messages and the
\* store has come to rest holding that conversation.
C16_Witness ==
  /\ lastCall.op = "reset"
  /\ status = "idle"
  /\ Len(messages) = 2
  /\ PageAtRest
  /\ db = Records(messages)

\* A step of a generation loop: a tick of the demo typing, or a continuation
\* of the streamed completion.
GenerationStep ==
  \E g \in Sends :
    \/ DemoTick(g)
    \/ CompletionCreated(g)
    \/ StreamChunk(g)
    \/ StreamEnd(g)
    \/ \E abortError \in BOOLEAN : GenerationFailed(g, abortError)

\* C17 (as claimed): once reset has been called, and no other call made since,
\* no step of a generation loop changes the messages or moves status away
\* from idle.
C17_ResetCancelsGeneration ==
  [][(lastCall.op = "reset" /\ GenerationStep) =>
       /\ messages' = messages
       /\ status = "idle" => status' = "idle"]_vars

\* ------------------------------------ controller: claims on initializeEngine

\* The handle held is bound to a model other than the selected one.
HeldForOtherModel == engineRef # 0 /\ handleModel[engineRef] # modelId

\* C18 (as claimed): a call of initializeEngine made while the handle held is
\* bound to another model than the selected one is accepted, and it disposes
\* the old handle: its disposal is invoked, or the handle is released at once.
C18_SwitchDisposesOldHandle ==
  [][(HeldForOtherModel /\ initializeEngine) =>
       /\ lastCall'.outcome = "accepted"
       /\ \/ unloading'[engineRef] > unloading[engineRef]
          \/ handleState'[engineRef] = "disposed"]_vars

\* An initializeEngine call has not finished.
InitInFlight == \E i \in Inits : initPc[i] \notin {"none", "done"}

\* C19 (as claimed): a call of initializeEngine made while an initialization
\* is in flight, an engine handle is held, or the status the hook returned is
\* loading or demo, is ignored without a fault: status, mode, progress, error,
\* suggestion and cached model id stay as they were, no GPU check is started
\* and no engine is constructed.
C19_IgnoredInitialize ==
  [][(initializeEngine /\ (InitInFlight \/ engineRef # 0 \/ cStatus \in {"loading", "demo"})) =>
       /\ lastCall'.outcome = "ignored"
       /\ UNCHANGED <<status, mode, progress, error, suggestedModelId, cachedModelId,
                      initPc, handleState>>]_vars

\* C20 (as claimed): an accepted call of initializeEngine leaves neither the
\* error text nor the suggested fallback model of an earlier attempt.
C20_LoadingClearsErrorAndSuggestion ==
  [][(initializeEngine /\ lastCall'.outcome = "accepted") =>
       (error' = "none" /\ suggestedModelId' = 0)]_vars

\* ------------------------------ controller: claims on construction failures

\* C21 (as claimed): a construction failure whose text carries a memory signal,
\* on the smallest model (getNextSmallerModel returns null), ends with status
\* demo and mode demo.
C21_MemoryFailureOnSmallest ==
  [][\A i \in Inits, text \in ErrorTexts :
       (InitFailed(i, text) /\ "memory" \in text /\ initModel[i] = 1) =>
         (status' = "demo" /\ mode' = "demo")]_vars

\* C21 (amended): the same when the text carries no cache or network signal,
\* which the catch block looks for first.
C21_MemoryFailureOnSmallestNoCache ==
  [][\A i \in Inits, text \in ErrorTexts :
       (InitFailed(i, text) /\ "memory" \in text /\ "cache" \notin text
          /\ initModel[i] = 1) =>
         (status' = "demo" /\ mode' = "demo")]_vars

\* C21 witness: the page is in demo mode for lack of memory.
C21_Witness ==
  /\ gpuInfo = "insufficient"
  /\ status = "demo"
  /\ mode = "demo"

\* C22 (as claimed): a construction failure whose text carries a memory signal,
\* on a model that has a next smaller one, ends with status error, the
\* suggestion set to that smaller model, an error text and no engine handle.
C22_MemoryFailureSuggestsSmaller ==
  [][\A i \in Inits, text \in ErrorTexts :
       (InitFailed(i, text) /\ "memory" \in text /\ NextSmaller(initModel[i]) # 0) =>
         /\ status' = "error"
         /\ suggestedModelId' = NextSmaller(initModel[i])
         /\ error' # "none"
         /\ engineRef' = 0]_vars

\* C23 (as claimed): a construction failure whose text carries a GPU signal
\* ends with status demo, mode demo and progress 100.
C23_GpuFailureEndsInDemo ==
  [][\A i \in Inits, text \in ErrorTexts :
       (InitFailed(i, text) /\ "gpu" \in text) =>
         (status' = "demo" /\ mode' = "demo" /\ progress' = 100)]_vars

\* C23 (amended): the same when the text carries no cache or network signal,
\* which the catch block looks for first.
C23_GpuFailureNoCacheEndsInDemo ==
  [][\A i \in Inits, text \in ErrorTexts :
       (InitFailed(i, text) /\ "gpu" \in text /\ "cache" \notin text) =>
         (status' = "demo" /\ mode' = "demo" /\ progress' = 100)]_vars

\* C23 witness: the page is in demo mode after a construction failed with a
\* GPU error, whose text it shows.
C23_Witness ==
  /\ gpuInfo = "failure"
  /\ status = "demo"
  /\ mode = "demo"
  /\ progress = 100

\* ------------------------------------ controller: claims on disposal

\* The cleanup of the engine held fails in this step: its promise rejects, or
\* the method throws.
DisposeFails ==
  \/ \E h \in Handles : DisposeSettledWith(h, FALSE)
  \/ resetUnloadThrows

\* An initializeEngine call made through the callbacks of the next render
\* passes both guards, unless a call accepted in the meantime is in flight.
InitializeWouldBeAccepted ==
  /\ initializingRef' => InitInFlight'
  /\ engineRef' = 0
  /\ status' \notin {"loading", "demo"}

\* C24: when the cleanup of the engine fails, by rejecting or by throwing, the
\* handle reference is cleared all the same, reset completes with status idle,
\* and an initializeEngine call that follows passes the guards.
C24_DisposeFailureSwallowed ==
  [][DisposeFails => (engineRef' = 0 /\ status' = "idle" /\ InitializeWouldBeAccepted)]_vars

\* C24 witness: the cleanup of an engine failed, reset completed, and the
\* initializeEngine call that followed was accepted.
C24_Witness ==
  /\ \E h \in Handles : handleState[h] = "disposeFailed"
  /\ engineRef = 0
  /\ status = "loading"
  /\ lastCall = [op |-> "initializeEngine", outcome |-> "accepted"]

\* ------------------------------------ controller: claims on generation

\* C25: a sendMessage call made while the status the hook returned is neither
\* ready nor demo nor generating throws 'Engine not ready' and changes
\* nothing: no message is appended, no generation is started, and status,
\* error and the cancellation signal stay as they were.
C25_NotReadyThrows ==
  [][(sendMessage /\ cStatus \notin {"ready", "demo", "generating"}) =>
       /\ lastCall'.outcome = "threw"
       /\ UNCHANGED <<messages, genPc, status, error, abortControllerRef, aborted>>]_vars

\* C25 witness: sendMessage was called while the page showed an error.
C25_Witness ==
  /\ cStatus = "error"
  /\ status = "error"
  /\ lastCall = [op |-> "sendMessage", outcome |-> "threw"]

\* C26 (as claimed): in demo mode, when stopGeneration is the latest call and it
\* came while the typing loop had shown nothing yet (the user and the empty
\* assistant message just appended), the loop observes the signal: its next
\* pass ends the loop, so the assistant message stays a strict prefix of the
\* scripted response.
C26_ImmediateStopHidesResponse ==
  [][\A g \in Sends :
       (/\ lastCall = [op |-> "stopGeneration", outcome |-> "accepted"]
        /\ genPc[g] = "typing"
        /\ genI[g] = 0
        /\ DemoTick(g)) =>
          /\ genPc'[g] = "done"
          /\ messages'[2 * g].content < RespLen]_vars

\* C27 (as claimed): stopGeneration called while a generation is in flight
\* returns status to the status that generation started from: demo for a
\* typing loop, ready for a streamed completion.
C27_StopRestoresStartingStatus ==
  [][\A g \in Sends :
       (stopGeneration /\ cStatus = "generating") =>
          /\ genPc[g] = "typing" => status' = "demo"
          /\ genPc[g] \in {"creating", "streaming"} => status' = "ready"]_vars

\* C28 (as claimed, the part on errors): the failure of a generation records
\* the error text and leaves status ready, and status becomes error only in
\* a step taken from status loading.
C28_ErrorOnlyFromLoading ==
  [][/\ \A g \in Sends :
          GenerationFailed(g, FALSE) => (status' = "ready" /\ error' # "none")
     /\ (status' = "error" /\ status # "error") => status = "loading"]_vars

\* C28 (the part on progress): a generation that was accepted ends, and the
\* step that ends it sets status ready (streamed completion) or demo (typing
\* loop), whether it completed, was cancelled or failed.
GenerationActive(g) == genPc[g] \in {"typing", "creating", "streaming"}

C28_GenerationEnds ==
  \A g \in Sends : GenerationActive(g) ~> (genPc[g] = "done")

C28_EndLandsInReadyOrDemo ==
  [][\A g \in Sends :
       (GenerationActive(g) /\ genPc'[g] = "done") =>
          status' = IF genPc[g] = "typing" THEN "demo" ELSE "ready"]_vars

\* -------------------------------------------------- store: claims on failures

C30_AbsentStoreIsNoOp ==
  [][~indexedDBAvailable =>
       /\ db' = db
       /\ operationInProgress' = FALSE
       /\ operationQueue' = << >>
       /\ waited' = {}
       /\ \A o \in Ops :
            /\ callState'[o] \in {"idle", "settled"}
            /\ callResult'[o] \in {"none", "resolved"}
            /\ opState'[o] = "none"
            /\ opReturn'[o] = << >>]_vars

\* C30 witness: without indexedDB a save of two messages, a load and a clear
\* have all resolved.
C30_Witness ==
  /\ ~indexedDBAvailable
  /\ \E a, b, c \in Ops :
       /\ opKind[a] = "save" /\ Len(opPayload[a]) = 2
       /\ opKind[b] = "load"
       /\ opKind[c] = "clear"
       /\ \A o \in {a, b, c} : callState[o] = "settled" /\ callResult[o] = "resolved"

\* ------------------------------------------------------- catalog: claims

\* C31: getNextSmallerModel(X) returns the entry just before X in the list
\* getAvailableModels returns for the same settings, and null when X is first
\* in that list or not in it; getSmallestModel returns the entry at index 0.
C31_IndexArithmetic ==
  LET list == getAvailableModels(query.arg.supportsShaderF16, query.arg.limitForMobile)
  IN /\ query.op = "getNextSmallerModel" =>
          /\ \A k \in 2..Len(list) :
               list[k].id = query.arg.id => query.result = list[k - 1]
          /\ (list[1].id = query.arg.id \/ \A k \in 1..Len(list) : list[k].id # query.arg.id)
               => query.result = NullModel
     /\ query.op = "getSmallestModel" => query.result = list[1]

\* C31 witness: with shader-f16 the query for the second f16 model has
\* returned the first, and a query for the first entry of the list null.
C31_Witness ==
  /\ query.op = "getNextSmallerModel"
  /\ query.arg.supportsShaderF16 /\ ~query.arg.limitForMobile
  /\ query.arg.id = "TinyLlama-1.1B-Chat-v1.0-q4f16_1-MLC-1k"
  /\ query.result.id = "SmolLM2-360M-Instruct-q4f16_1-MLC"

\* C39 (as claimed): the model getNextSmallerModel returns for a catalog model
\* X needs no more memory than X.
C39_NextSmallerNeedsNoMore ==
  (query.op = "getNextSmallerModel" /\ query.result # NullModel) =>
     query.result.vramMB <= getModelById(query.arg.id).vramMB

\* C32: the window passed to the engine is the system prompt, then the last
\* min(50, n) of the n messages that preceded the send, in their order (role
\* and content of each), then the new user message; at most 52 entries.
C32_ConversationWindow ==
  query.op = "conversationHistory" =>
    LET msgs == query.arg.messages
        n == Len(msgs)
        keep == IF n < 50 THEN n ELSE 50
        w == query.result
    IN /\ Len(w) = keep + 2
       /\ Len(w) <= 52
       /\ w[1] = SystemEntry
       /\ \A k \in 1..keep :
            w[1 + k] = [role |-> msgs[n - keep + k].role,
                        content |-> msgs[n - keep + k].content]
       /\ w[Len(w)] = [role |-> "user", content |-> query.arg.content]

\* C32 witness: a window built after 60 messages holds 52 entries, the first
\* message kept being the 11th.
C32_Witness ==
  /\ query.op = "conversationHistory"
  /\ Len(query.arg.messages) = 60
  /\ Len(query.result) = 52
  /\ query.result[2].content = 11

\* ------------------------------------------------------ demo mode: claims

\* The sends that were accepted in demo mode, and the rank of one among them.
DemoSends == {g \in AllSends : genResponse[g] # -1}

DemoRank(g) == Cardinality({h \in DemoSends : h <= g})

\* C33: the k-th accepted demo send uses the response at index (k - 1) mod 5,
\* and the round-robin index equals the number of accepted demo sends: it
\* advances by one with each and is never reset.  In the test environment
\* every accepted send is a demo send.
C33_RoundRobinResponses ==
  /\ \A g \in DemoSends : genResponse[g] = (DemoRank(g) - 1) % 5
  /\ demoResponseIndex = Cardinality(DemoSends)
  /\ testEnv => DemoSends = {g \in AllSends : genPc[g] # "none"}

\* C33 witness: the sixth demo send of the session used the first response
\* again, and after a reset the index still counts the six sends.
C33_Witness ==
  /\ genResponse[5] = 4
  /\ genResponse[6] = 0
  /\ lastCall.op = "reset"
  /\ status = "idle"
  /\ demoResponseIndex = 6

\* ------------------------------------- controller: claims on initialization

\* A continuation of the accepted initializeEngine call i: the GPU probe,
\* the import or the construction settles.
InitContinues(i) ==
  \/ \E hasGPU \in BOOLEAN : GpuCheckResolved(i, hasGPU)
  \/ ImportResolved(i)
  \/ \E cap \in Caps : CreateResolved(i, cap)
  \/ \E text \in ErrorTexts : InitFailed(i, text)

\* C34 (as claimed): when reset is the latest call and has completed (status
\* idle, no disposal pending), a continuation of an initialization that was in
\* flight at the reset stores no engine handle and leaves status, mode, error
\* and cached model id as they are.
C34_ResetCancelsInitialization ==
  [][\A i \in Inits :
       (/\ lastCall.op = "reset"
        /\ status = "idle"
        /\ \A h \in Handles : unloading[h] = 0
        /\ InitContinues(i)) =>
          UNCHANGED <<engineRef, status, mode, error, cachedModelId>>]_vars

\* C37 (as claimed): initializingRef is set only while an initializeEngine call
\* has not finished, and a call of initializeEngine made when the status the
\* hook returned is idle or error, and no earlier call is still executing, is
\* accepted.
C37_GuardNeverWedged ==
  [][/\ initializingRef' => InitInFlight'
     /\ (initializeEngine /\ ~Stale /\ status \in {"idle", "error"} /\ ~InitInFlight) =>
          lastCall'.outcome = "accepted"]_vars

\* C36 (as claimed): a call of initializeEngine made while the status is
\* generating changes nothing: status, mode and progress stay, no probe or
\* construction is started and the generation loops go on as they were.
C36_InitializeWhileGenerating ==
  [][(initializeEngine /\ ~Stale /\ status = "generating") =>
       UNCHANGED <<status, mode, progress, initPc, initializingRef, genPc>>]_vars

\* ------------------------------------------ controller: claims on cancellation

\* C35 (as claimed): in the step in which a sendMessage call is accepted, in
\* either mode, the cancellation flag its loop will poll is not signalled.
C35_FreshCancellationFlag ==
  [][(sendMessage /\ lastCall'.outcome = "accepted" /\ messages' # messages) =>
       ~AbortSignalled']_vars

\* ------------------------------ controller: claims on failure classification

\* C40: a construction failure is classified by the first category its text
\* matches, in the order cache, GPU, memory, and gets the outcome of that
\* category alone: cache gives status error with the download guidance and
\* neither demo mode nor a suggestion; GPU gives demo mode with no error text
\* and no suggestion; memory gives the suggestion of the next smaller model
\* with status error, or demo mode when there is none; a text matching no
\* category gives status error with the raw text.
C40_ClassificationPrecedence ==
  [][\A i \in Inits, text \in ErrorTexts :
       InitFailed(i, text) =>
         IF "cache" \in text
         THEN /\ status' = "error" /\ error' = "cache"
              /\ mode' = mode /\ suggestedModelId' = suggestedModelId
         ELSE IF "gpu" \in text
         THEN /\ status' = "demo" /\ mode' = "demo" /\ gpuInfo' = "failure"
              /\ error' = error /\ suggestedModelId' = suggestedModelId
         ELSE IF "memory" \in text
         THEN IF NextSmaller(initModel[i]) # 0
              THEN /\ status' = "error" /\ error' = "memory"
                   /\ suggestedModelId' = NextSmaller(initModel[i])
                   /\ mode' = mode
              ELSE /\ status' = "demo" /\ mode' = "demo" /\ gpuInfo' = "insufficient"
                   /\ error' = error /\ suggestedModelId' = suggestedModelId
         ELSE /\ status' = "error" /\ error' = "raw"
              /\ mode' = mode /\ suggestedModelId' = suggestedModelId]_vars

\* C40 witness: a construction has failed on a cache or network signal while
\* the accelerated mode was selected: the page shows the download guidance,
\* stays out of demo mode and suggests no model.
C40_Witness ==
  /\ status = "error"
  /\ error = "cache"
  /\ mode = "gpu"
  /\ suggestedModelId = 0
  /\ ~initializingRef

\* ------------------------------------------- controller with store: mount

\* The history found in the store is in memory and in the store, which is at
\* rest after the effects of the latest render.
HistoryRestored ==
  /\ mounted = "loaded"
  /\ PageAtRest
  /\ PriorHistory \subseteq Records(messages)
  /\ PriorHistory \subseteq db

\* No call to the store has failed so far.
NoStoreFailure == \A o \in Arrived : opOutcome[o] \in {"none", "ok"}

====
